---- MODULE Spec2Model ----
(***************************************************************************)
(* A model of app.py, the key-rotating gateway in front of one upstream    *)
(* chat-completion API: the credential pool and its per-model rotation     *)
(* (select_key), the model registry (refresh_models), the usage ledger     *)
(* guarded by data_lock, the status page (index), /v1/models (list_models) *)
(* and the request handler chat_completions with its streaming generator.  *)
(*                                                                         *)
(* Request handlers run in threads of the WSGI server; a handler is cut    *)
(* into steps wherever it touches state another thread can change.         *)
(***************************************************************************)
EXTENDS Integers, Sequences, FiniteSets, TLC

\* ------------------------------------------------------------- bounds
NumThreads == 2          \* request-handling threads of the server
MaxRequests == 3         \* requests received over a run
MaxKeys == 2             \* entries of the KEYS environment variable
MaxChunks == 2           \* chunks of one streamed upstream response
MaxTokens == 1           \* largest usage.total_tokens the upstream reports

Threads == 1..NumThreads
NoThread == 0
PageThread == NumThreads + 1

\* ------------------------------------------------------------- values
Models == {"m1", "m2"}
\* an optional value is <<>> (None) or <<v>>
None == <<>>
Some(v) == <<v>>

\* the credentials the deployment may configure, and the values of the KEYS
\* environment variable: split at its commas, entry i is credential i with
\* blanks around it, or nothing but blanks
Credentials == <<"sk-aaaaaa1", "k2", "key-03", "sk-bbbbbbbb4">>
Padded(c) == <<" ", c, " ">>
Blank == <<" ">>
KeysEnv == UNION {{[i \in 1..n |-> IF b[i] THEN Padded(Credentials[i]) ELSE Blank]
                      : b \in [1..n -> BOOLEAN]} : n \in 1..MaxKeys}
\* the characters of a credential, first to last
Chars(k) ==
    CASE k = "sk-aaaaaa1" -> <<"s", "k", "-", "a", "a", "a", "a", "a", "a", "1">>
      [] k = "k2" -> <<"k", "2">>
      [] k = "key-03" -> <<"k", "e", "y", "-", "0", "3">>
      [] k = "sk-bbbbbbbb4" -> <<"s", "k", "-", "b", "b", "b", "b", "b", "b", "b", "b", "4">>
      [] OTHER -> <<>>
\* str.strip on an entry: the blanks around it removed, "" when nothing is left
strip(e) == IF Len(e) = 3 THEN e[2] ELSE ""

\* Authorization headers a caller may send (none, the bare secret, a secret
\* after "Bearer "), and the values of AUTHORIZATION_KEY (unset, empty, set)
Headers == {None, Some("s1"), Some("Bearer s1"), Some("Bearer s2")}
Secrets == {None, Some(""), Some("s1")}

\* JSON texts an upstream body (or the payload of a stream line) may be:
\* not JSON at all, a JSON value that is no object, or an object whose
\* "usage" member is absent, null, an object without total_tokens, or an
\* object with total_tokens = n
NotJson == <<"text", "<html>">>
DoneMarker == <<"text", "[DONE]">>
JsonArray == <<"json", "array">>
JsonObject(u) == <<"json", "object", u>>
UsageAbsent == <<"absent">>
UsageNull == <<"null">>
UsageEmpty == <<"object">>
UsageTotal(n) == <<"object", n>>
Usages == {UsageAbsent, UsageNull, UsageEmpty} \cup {UsageTotal(n) : n \in 1..MaxTokens}
Bodies == {NotJson, JsonArray} \cup {JsonObject(u) : u \in Usages}

\* lines of a streamed body: "data: <payload>" or any other line
DataLine(p) == [data |-> TRUE, payload |-> p]
OtherLine == [data |-> FALSE, payload |-> NotJson]
StreamPayloads == {DoneMarker, NotJson, JsonArray, JsonObject(UsageAbsent), JsonObject(UsageNull)}
                    \cup {JsonObject(UsageTotal(n)) : n \in 1..MaxTokens}
Lines == {DataLine(p) : p \in StreamPayloads} \cup {OtherLine}

\* upstream answers to GET /v1/models: the GET raises, the status is an
\* error, the body is no JSON, or "data" lists entries that carry an id or an
\* empty id (an entry without "id" reads as None, as falsy as "")
Listings == {<<>>, <<Some("m1")>>, <<Some(""), Some("m2")>>, <<Some("m1"), Some("m2")>>}
ModelsAnswers == {[kind |-> "transport", data |-> <<>>],
                  [kind |-> "status", data |-> <<>>],
                  [kind |-> "notjson", data |-> <<>>]}
                   \cup {[kind |-> "ok", data |-> l] : l \in Listings}

\* --------------------------------------------------------- pure helpers
RECURSIVE Sum(_)
Sum(s) == IF s = <<>> THEN 0 ELSE Head(s) + Sum(Tail(s))

Range(s) == {s[i] : i \in 1..Len(s)}

\* ---------------------------------------------------------------- state
\* A handler's locals are kept while the handler runs and dropped when it
\* returns. req is the request a thread took last: its route, and the model
\* and stream members of its body as long as the handler still reads them
\* (the Authorization header is read once, by check_auth, and not kept).
VARIABLES
    boot,                    \* "load", "refresh" (lines 183-184), "serving"
    AUTHORIZATION_KEY,       \* the environment variable check_auth reads
    clock,                   \* the calls of time.time() so far: the time it returns
    all_keys, text_models, model_key_idx,
    fetch_failed,            \* whether the latest refresh_models logged a failure (line 60)
    data_lock,               \* the thread holding data_lock, or NoThread
    request_timestamps, token_counts, request_timestamps_day, token_counts_day,
    ppc, snapshot,           \* index: its position, its rpm, tpm, rpd, tpd
    key_balances,            \* index: the "key" column of the page it renders
    pc, req,                 \* per thread: position, the request taken last
    local,                   \* per thread: idx, key, js, buffer, total_tokens, now_ts
    response,                \* per thread: the response last sent to its caller
    upstream, delivered,     \* per thread: chunks the upstream streamed, chunks yielded
    attempts, records,       \* per request: upstream POSTs made, records appended
    calls,                   \* per model: select_key calls that returned a key
    recorded,                \* token counts of the completed ledger records
    arrived                  \* requests received so far

config == <<boot, AUTHORIZATION_KEY, all_keys>>
registry == <<text_models, fetch_failed>>
ledger == <<request_timestamps, token_counts, request_timestamps_day, token_counts_day>>
page == <<ppc, snapshot, key_balances>>
handler == <<pc, req, local, response, upstream, delivered, attempts, records>>
vars == <<config, clock, registry, model_key_idx, data_lock, ledger, page,
          handler, calls, recorded, arrived>>

NoRequest == [route |-> "", model |-> "", stream |-> FALSE]
NoResponse == [status |-> 0, body |-> [error |-> ""]]
NoLocals == [idx |-> 0, key |-> "", js |-> NotJson, buffer |-> <<>>,
             total_tokens |-> 0, now_ts |-> 0]
NoSnapshot == [rpm |-> 0, tpm |-> 0, rpd |-> 0, tpd |-> 0]
EmptyMap == [m \in {} |-> 0]

\* the state once the globals are defined (lines 27-34), before line 183, in
\* the environment E
Start(E) ==
    /\ boot = "load"
    /\ AUTHORIZATION_KEY \in E.secrets
    /\ clock = 0
    /\ all_keys = <<>> /\ text_models = <<>> /\ model_key_idx = EmptyMap
    /\ fetch_failed = FALSE
    /\ data_lock = NoThread
    /\ request_timestamps = <<>> /\ token_counts = <<>>
    /\ request_timestamps_day = <<>> /\ token_counts_day = <<>>
    /\ ppc = "idle" /\ snapshot = NoSnapshot /\ key_balances = <<>>
    /\ pc = [t \in Threads |-> "idle"]
    /\ req = [t \in Threads |-> NoRequest]
    /\ local = [t \in Threads |-> NoLocals]
    /\ response = [t \in Threads |-> NoResponse]
    /\ upstream = [t \in Threads |-> <<>>]
    /\ delivered = [t \in Threads |-> <<>>]
    /\ attempts = [t \in Threads |-> 0]
    /\ records = [t \in Threads |-> 0]
    /\ calls = [m \in Models |-> 0]
    /\ recorded = <<>>
    /\ arrived = 0

\* ------------------------------------------------- startup and registry
\* load_keys: KEYS split at its commas, each entry stripped, empty ones dropped
load_keys(raw) ==
    LET stripped == [i \in 1..Len(raw) |-> strip(raw[i])]
        NonEmpty(k) == k # ""
    IN  SelectSeq(stripped, NonEmpty)

\* line 183: the module calls load_keys()
LoadKeys(E) ==
    /\ boot = "load"
    /\ \E raw \in E.keys : all_keys' = load_keys(raw)
    /\ boot' = "refresh"
    /\ UNCHANGED <<AUTHORIZATION_KEY, clock, registry, model_key_idx, data_lock,
                   ledger, page, handler, calls, recorded, arrived>>

\* the ids of a listing: [m["id"] for m in data.get("data", []) if m.get("id")]
ListedIds(data) ==
    LET HasId(e) == e # None /\ e[1] # ""
        kept == SelectSeq(data, HasId)
    IN  [i \in 1..Len(kept) |-> kept[i][1]]

\* what refresh_models leaves in text_models when the GET, raise_for_status
\* or resp.json() raised (lines 59-61)
\* line 45: whether refresh_models has a key to fetch the listing with
HasKeysAlways == TRUE
HasKeys == all_keys # <<>>

KeepLastListing == text_models
OnFetchFailure == <<>>

\* refresh_models, whole, when the GET is answered by a (no GET is made with an
\* empty pool): called at line 184 before the scheduler and the server start,
\* then by the scheduler's hourly job (line 186), one call at a time
RefreshGets(a) ==
    /\ boot \in {"refresh", "serving"}
    /\ text_models' = IF ~HasKeys THEN <<>>
                      ELSE IF a.kind = "ok" THEN ListedIds(a.data)
                      ELSE OnFetchFailure
    /\ fetch_failed' = (HasKeys /\ a.kind # "ok")
    /\ boot' = "serving"
    /\ UNCHANGED <<AUTHORIZATION_KEY, all_keys, clock, model_key_idx, data_lock,
                   ledger, page, handler, calls, recorded, arrived>>

Refresh(E) == \E a \in E.answers : RefreshGets(a)

\* threading.Lock: what the exit of a with block leaves in the lock
StillLocked == data_lock
Unlocked == NoThread

\* threading.Lock: acquire waits until no thread holds it
LockIgnored == TRUE
LockIsFree == data_lock = NoThread

\* ------------------------------------------------------------ status page
\* index, lines 82-85: the four reads, under data_lock
PageRead ==
    /\ boot = "serving" /\ ppc = "idle"
    /\ LockIsFree
    /\ data_lock' = PageThread
    /\ snapshot' = [rpm |-> Len(request_timestamps), tpm |-> Sum(token_counts),
                    rpd |-> Len(request_timestamps_day), tpd |-> Sum(token_counts_day)]
    /\ ppc' = "read"
    /\ UNCHANGED key_balances
    /\ UNCHANGED <<config, clock, registry, model_key_idx, ledger, handler,
                   calls, recorded, arrived>>

\* line 86: "*" * 10 + k[-6:], a string as its characters; k[-6:] is the
\* whole of a k of six characters or fewer
MaskStars == 10
MaskTail == 6
Tail6(cs) == IF Len(cs) <= MaskTail THEN cs ELSE SubSeq(cs, Len(cs) - MaskTail + 1, Len(cs))
Mask(k) == [i \in 1..MaskStars |-> "*"] \o Tail6(Chars(k))

\* the exit of the with block and line 86: the pool's credentials, masked
PageRelease ==
    /\ ppc = "read"
    /\ data_lock' = Unlocked
    /\ key_balances' = [i \in 1..Len(all_keys) |-> Mask(all_keys[i])]
    /\ ppc' = "render"
    /\ UNCHANGED <<config, clock, registry, model_key_idx, ledger, snapshot, handler,
                   calls, recorded, arrived>>

\* lines 87-88: the page is rendered and sent, and the handler's locals are gone
PageRender ==
    /\ ppc = "render"
    /\ snapshot' = NoSnapshot
    /\ key_balances' = <<>>
    /\ ppc' = "idle"
    /\ UNCHANGED <<config, clock, registry, model_key_idx, data_lock, ledger, handler,
                   calls, recorded, arrived>>

\* lines 85-88 as one step: after the with block index reads only all_keys,
\* which no thread writes once the server runs
PageReturn ==
    /\ ppc = "read"
    /\ data_lock' = Unlocked
    /\ snapshot' = NoSnapshot
    /\ key_balances' = <<>>
    /\ ppc' = "idle"
    /\ UNCHANGED <<config, clock, registry, model_key_idx, ledger, handler,
                   calls, recorded, arrived>>

\* -------------------------------------------------------- request handlers
\* check_auth: no secret configured (unset or empty) lets every request in
check_auth_any(h) == AUTHORIZATION_KEY = None \/ AUTHORIZATION_KEY[1] = "" \/ h # None
check_auth(h) ==
    IF AUTHORIZATION_KEY = None \/ AUTHORIZATION_KEY[1] = ""
    THEN TRUE
    ELSE h = Some("Bearer " \o AUTHORIZATION_KEY[1])

ErrorBody(msg) == [error |-> msg]
Reply(status, body) == [status |-> status, body |-> body]
Unauthorized == Reply(401, ErrorBody("Unauthorized"))
InvalidModel == Reply(400, ErrorBody("Invalid model"))
NoKey == Reply(429, ErrorBody("No available key"))
ProxyError(msg) == Reply(500, ErrorBody(msg))

\* "model not in text_models" (line 111), negated
IsValidAny(m) == m \in Models
IsValid(m) == m \in Range(text_models)

Free(t) == boot = "serving" /\ pc[t] = "idle"

\* a request arrives at a free thread
Begin(t) ==
    /\ Free(t)
    /\ arrived' = arrived + 1
    /\ attempts' = [attempts EXCEPT ![t] = 0]
    /\ records' = [records EXCEPT ![t] = 0]

\* thread t goes on to position p
Goto(t, p) == pc' = [pc EXCEPT ![t] = p]

\* the handler of thread t returns r: its locals are gone
Return(t, r) ==
    /\ response' = [response EXCEPT ![t] = r]
    /\ pc' = [pc EXCEPT ![t] = "idle"]
    /\ local' = [local EXCEPT ![t] = NoLocals]
    /\ upstream' = [upstream EXCEPT ![t] = <<>>]
    /\ delivered' = [delivered EXCEPT ![t] = <<>>]

\* GET /v1/models with Authorization header h: list_models, whole (lines 91-102)
ListModelsWith(t, h) ==
    /\ Begin(t)
    /\ req' = [req EXCEPT ![t] = [route |-> "/v1/models", model |-> "", stream |-> FALSE]]
    /\ Return(t, IF check_auth(h)
                 THEN Reply(200, [object |-> "list", data |-> text_models])
                 ELSE Unauthorized)
    /\ UNCHANGED <<config, clock, registry, model_key_idx, data_lock, ledger,
                   page, calls, recorded>>

ListModels(t, E) ==
    /\ arrived < E.requests
    /\ \E h \in E.headers : ListModelsWith(t, h)

\* POST /v1/chat/completions with header h, model m, stream s: lines 106-107
ChatReceiveWith(t, h, m, s) ==
    /\ Begin(t)
    /\ req' = [req EXCEPT ![t] = [route |-> "/v1/chat/completions", model |-> m,
                                  stream |-> s]]
    /\ IF check_auth(h)
       THEN /\ response' = [response EXCEPT ![t] = NoResponse]
            /\ Goto(t, "validate")
            /\ UNCHANGED <<local, upstream, delivered>>
       ELSE Return(t, Unauthorized)
    /\ UNCHANGED <<config, clock, registry, model_key_idx, data_lock, ledger,
                   page, calls, recorded>>

ChatReceive(t, E) ==
    /\ arrived < E.requests
    /\ \E h \in E.headers, m \in E.models, s \in BOOLEAN : ChatReceiveWith(t, h, m, s)

\* lines 109-116: the model is looked up in text_models (the max_tokens
\* default only changes the body that is forwarded)
Validate(t) ==
    /\ pc[t] = "validate"
    /\ IF IsValid(req[t].model)
       THEN /\ Goto(t, "select")
            /\ UNCHANGED <<local, response, upstream, delivered>>
       ELSE Return(t, InvalidModel)
    /\ UNCHANGED <<req, config, clock, registry, model_key_idx, data_lock, ledger,
                   page, attempts, records, calls, recorded, arrived>>

\* select_key's pieces: the counter a model rotates on, its stored value
\* (0 when the model has none), and the value stored back
CounterShared(model_name) == "m1"
CounterOf(model_name) == model_name
CounterUnset(model_name) == 0
Counter(model_name) ==
    IF CounterOf(model_name) \in DOMAIN model_key_idx
    THEN model_key_idx[CounterOf(model_name)] ELSE 0
NextIndexStuck(i) == i
NextIndex(i) == i + 1
StoreNothing(model_name, v) == model_key_idx
StoreAll(model_name, v) == [m \in Models |-> v]
Store(model_name, v) ==
    [m \in DOMAIN model_key_idx \cup {CounterOf(model_name)} |->
        IF m = CounterOf(model_name) THEN v ELSE model_key_idx[m]]

\* select_key, lines 65-68 (and line 120 when it returned None)
SelectRead(t) ==
    /\ pc[t] = "select"
    /\ IF all_keys = <<>>
       THEN Return(t, NoKey)
       ELSE /\ LET i == Counter(req[t].model) % Len(all_keys)
               IN  local' = [local EXCEPT ![t].idx = i, ![t].key = all_keys[i + 1]]
            /\ Goto(t, "store")
            /\ UNCHANGED <<response, upstream, delivered>>
    /\ UNCHANGED <<req, config, clock, registry, model_key_idx, data_lock, ledger,
                   page, attempts, records, calls, recorded, arrived>>

\* select_key, lines 69-70
SelectWrite(t) ==
    /\ pc[t] = "store"
    /\ model_key_idx' = Store(req[t].model, NextIndex(local[t].idx))
    /\ calls' = [calls EXCEPT ![req[t].model] = @ + 1]
    /\ Goto(t, "forward")
    /\ UNCHANGED <<config, clock, registry, data_lock, ledger, page, req, local,
                   response, upstream, delivered, attempts, records, recorded, arrived>>

\* json.loads / resp.json(): whether a text parses
Parses(b) == b[1] = "json"

\* js.get("usage", {}).get("total_tokens", 0) on a parsed body: Some(n), or
\* None when it raises (js is no object, or usage is no object)
TotalTokens(js) ==
    IF js = JsonArray THEN None
    ELSE LET usage == js[3]
         IN  CASE usage = UsageAbsent -> Some(0)
               [] usage = UsageNull -> None
               [] usage = UsageEmpty -> Some(0)
               [] OTHER -> Some(usage[2])

\* gen, lines 143-155: the last "data: " line that is not [DONE] decides;
\* any exception on the way leaves 0
RECURSIVE ScanUsage(_, _)
ScanUsage(lines, i) ==
    IF i = 0 THEN 0
    ELSE LET line == lines[i]
         IN  IF ~line.data \/ line.payload = DoneMarker
             THEN ScanUsage(lines, i - 1)
             ELSE IF ~Parses(line.payload) \/ TotalTokens(line.payload) = None
                  THEN 0
                  ELSE TotalTokens(line.payload)[1]
StreamTokensForward(lines) ==
    LET D == {i \in 1..Len(lines) : lines[i].data /\ lines[i].payload # DoneMarker}
        first == CHOOSE i \in D : \A j \in D : i <= j
    IN  IF D = {} THEN 0 ELSE ScanUsage(lines, first)
StreamTokens(lines) == ScanUsage(lines, Len(lines))

OtherStatuses == {200, 500}

\* one more POST to the upstream (line 125)
Post(t) ==
    /\ pc[t] = "forward"
    /\ attempts' = [attempts EXCEPT ![t] = @ + 1]

\* requests.post is the last to read the key and the request's model
Posted(t) ==
    /\ req' = [req EXCEPT ![t].model = ""]
    /\ local' = [local EXCEPT ![t].idx = 0, ![t].key = ""]

\* requests.post raises (lines 125-131, caught at 178-180)
ForwardFails(t) ==
    /\ Post(t)
    /\ Return(t, ProxyError("transport"))
    /\ UNCHANGED <<req, config, clock, registry, model_key_idx, data_lock, ledger,
                   page, records, calls, recorded, arrived>>

\* jsonify(resp.json()) at line 133: the body sent for an upstream 429 whose
\* body b is JSON
PassthroughOwnError(b) == ErrorBody("rate limited")
Passthrough(b) == [json |-> b]

\* the upstream answers 429 with body b (lines 132-133); resp.json() may raise
ForwardLimitedWith(t, b) ==
    /\ Post(t)
    /\ Return(t, IF Parses(b) THEN Reply(429, Passthrough(b)) ELSE ProxyError("json"))
    /\ UNCHANGED <<req, config, clock, registry, model_key_idx, data_lock, ledger,
                   page, records, calls, recorded, arrived>>

ForwardLimited(t, E) == \E b \in E.bodies : ForwardLimitedWith(t, b)

\* any other status, stream requested: the generator is handed to the server
\* (lines 135-136, 164), which starts the 200 response
ForwardStream(t) ==
    /\ Post(t) /\ req[t].stream
    /\ response' = [response EXCEPT ![t] = Reply(200, [stream |-> "open"])]
    /\ Posted(t)
    /\ Goto(t, "stream")
    /\ UNCHANGED <<config, clock, registry, model_key_idx, data_lock, ledger,
                   page, upstream, delivered, records, calls, recorded, arrived>>

\* any other status st with body b, no stream: lines 166-167; resp.json() or
\* .get may raise
ForwardBufferedWith(t, st, b) ==
    /\ Post(t) /\ ~req[t].stream
    /\ st \in OtherStatuses
    /\ IF Parses(b) /\ TotalTokens(b) # None
       THEN /\ req' = [req EXCEPT ![t].model = ""]
            /\ local' = [local EXCEPT ![t].idx = 0, ![t].key = "", ![t].js = b,
                                      ![t].total_tokens = TotalTokens(b)[1]]
            /\ Goto(t, "lock")
            /\ UNCHANGED <<response, upstream, delivered>>
       ELSE /\ Return(t, ProxyError(IF Parses(b) THEN "attribute" ELSE "json"))
            /\ UNCHANGED req
    /\ UNCHANGED <<config, clock, registry, model_key_idx, data_lock, ledger,
                   page, records, calls, recorded, arrived>>

ForwardBuffered(t, E) ==
    \E st \in OtherStatuses, b \in E.bodies : ForwardBufferedWith(t, st, b)

\* what gen has handed to the caller after yielding one more chunk (line 141)
RelayDataOnly(out, chunk) == IF chunk.data THEN Append(out, chunk) ELSE out
Relay(out, chunk) == Append(out, chunk)

\* gen, lines 139-141: one chunk arrives, is buffered and yielded
StreamChunk(t, E) ==
    /\ pc[t] = "stream"
    /\ Len(upstream[t]) < E.chunks
    /\ \E chunk \in E.lines :
        /\ upstream' = [upstream EXCEPT ![t] = Append(@, chunk)]
        /\ local' = [local EXCEPT ![t].buffer = Append(@, chunk)]
        /\ delivered' = [delivered EXCEPT ![t] = Relay(@, chunk)]
    /\ UNCHANGED <<config, clock, registry, model_key_idx, data_lock, ledger,
                   page, pc, req, response, attempts, records, calls, recorded, arrived>>

\* iter_content raises inside gen, which runs after chat_completions has
\* returned: nothing in app.py catches it and the server breaks the response
\* off, a 200 cut short, or the server's own 500 if no chunk was sent yet
StreamFail(t) ==
    /\ pc[t] = "stream"
    /\ \E st \in IF delivered[t] = <<>> THEN {200, 500} ELSE {200} :
           Return(t, Reply(st, [stream |-> "aborted"]))
    /\ UNCHANGED <<req, config, clock, registry, model_key_idx, data_lock, ledger,
                   page, attempts, records, calls, recorded, arrived>>

\* the stream ends: gen, lines 142-155; the loop is over and the buffer parsed,
\* so what the loop received, buffered and yielded is read no more
StreamEnd(t) ==
    /\ pc[t] = "stream"
    /\ local' = [local EXCEPT ![t].total_tokens = StreamTokens(local[t].buffer),
                              ![t].buffer = <<>>]
    /\ upstream' = [upstream EXCEPT ![t] = <<>>]
    /\ delivered' = [delivered EXCEPT ![t] = <<>>]
    /\ Goto(t, "lock")
    /\ UNCHANGED <<config, clock, registry, model_key_idx, data_lock, ledger,
                   page, req, response, attempts, records, calls, recorded, arrived>>

\* ----------------------------------------------------------------- ledger
\* "with data_lock:" and now_ts = time.time() (lines 157-158, 169-170)
Acquire(t) ==
    /\ pc[t] = "lock"
    /\ LockIsFree
    /\ data_lock' = t
    /\ local' = [local EXCEPT ![t].now_ts = clock]
    /\ clock' = clock + 1
    /\ Goto(t, "line159")
    /\ UNCHANGED <<config, registry, model_key_idx, ledger, page, req, response,
                   upstream, delivered, attempts, records, calls, recorded, arrived>>

\* lines 159 / 171
Append1(t) ==
    /\ pc[t] = "line159"
    /\ request_timestamps' = Append(request_timestamps, local[t].now_ts)
    /\ Goto(t, "line160")
    /\ UNCHANGED <<config, clock, registry, model_key_idx, data_lock, token_counts,
                   request_timestamps_day, token_counts_day, page, req, local,
                   response, upstream, delivered, attempts, records, calls, recorded,
                   arrived>>

\* lines 160 / 172
Append2(t) ==
    /\ pc[t] = "line160"
    /\ request_timestamps_day' = Append(request_timestamps_day, local[t].now_ts)
    /\ Goto(t, "line161")
    /\ UNCHANGED <<config, clock, registry, model_key_idx, data_lock,
                   request_timestamps, token_counts, token_counts_day, page, req,
                   local, response, upstream, delivered, attempts, records, calls,
                   recorded, arrived>>

\* lines 161 / 173
Append3(t) ==
    /\ pc[t] = "line161"
    /\ token_counts' = Append(token_counts, local[t].total_tokens)
    /\ Goto(t, "line162")
    /\ UNCHANGED <<config, clock, registry, model_key_idx, data_lock,
                   request_timestamps, request_timestamps_day, token_counts_day, page,
                   req, local, response, upstream, delivered, attempts, records,
                   calls, recorded, arrived>>

\* the token count appended to the daily sequence (lines 162 / 174)
DayTokensZero(tt) == 0
DayTokens(tt) == tt

\* lines 162 / 174, the exit of the with block, and the end of the handler:
\* gen returns (the stream is complete) or jsonify(js) is returned (line 176)
Append4(t) ==
    /\ pc[t] = "line162"
    /\ token_counts_day' = Append(token_counts_day, DayTokens(local[t].total_tokens))
    /\ data_lock' = Unlocked
    /\ records' = [records EXCEPT ![t] = @ + 1]
    /\ recorded' = Append(recorded, local[t].total_tokens)
    /\ Return(t, IF req[t].stream THEN Reply(200, [stream |-> "complete"])
                 ELSE Reply(200, [json |-> local[t].js]))
    /\ UNCHANGED <<req, config, clock, registry, model_key_idx, request_timestamps,
                   token_counts, request_timestamps_day, page, attempts, calls, arrived>>

\* ------------------------------------------------------ the specification
\* E is the environment: what the deployment configures, what callers send
\* and what the upstream answers
\* the steps of chat_completions once it has taken a request
Progress(t, E) ==
    \/ Validate(t) \/ SelectRead(t) \/ SelectWrite(t)
    \/ ForwardFails(t) \/ ForwardLimited(t, E) \/ ForwardStream(t) \/ ForwardBuffered(t, E)
    \/ StreamChunk(t, E) \/ StreamFail(t) \/ StreamEnd(t)
    \/ Acquire(t) \/ Append1(t) \/ Append2(t) \/ Append3(t) \/ Append4(t)

Step(t, E) == ListModels(t, E) \/ ChatReceive(t, E) \/ Progress(t, E)

Background(E) == LoadKeys(E) \/ Refresh(E) \/ PageRead \/ PageReturn

\* a server that takes one request at a time, in the full environment
Environment ==
    [secrets |-> Secrets, keys |-> KeysEnv, answers |-> ModelsAnswers,
     headers |-> Headers, models |-> Models, bodies |-> Bodies, lines |-> Lines,
     chunks |-> MaxChunks, requests |-> MaxRequests]
Worker == 1
Init == Start(Environment)
Next == Background(Environment) \/ Step(Worker, Environment)
Spec == Init /\ [][Next]_vars

\* the plain environment: one credential, a secret every caller knows, an
\* upstream that lists both models, reports a usage and streams one chunk
Plain ==
    [secrets |-> {Some("s1")}, keys |-> {<<Padded(Credentials[1])>>},
     answers |-> {[kind |-> "ok", data |-> <<Some("m1"), Some("m2")>>]},
     headers |-> {Some("Bearer s1")}, models |-> Models,
     bodies |-> {JsonObject(UsageTotal(MaxTokens))},
     lines |-> {DataLine(JsonObject(UsageTotal(MaxTokens)))},
     chunks |-> 1, requests |-> MaxRequests]

\* the same server where only the deployment varies: every value of KEYS and
\* every answer to the listing of the models
Deployment == [Plain EXCEPT !.keys = KeysEnv, !.answers = ModelsAnswers]
InitDeployment == Start(Deployment)
NextDeployment == Background(Deployment) \/ Step(Worker, Deployment)
SpecDeployment == InitDeployment /\ [][NextDeployment]_vars

\* the same server where only the upstream's answers to a chat request vary:
\* every body, and streams of up to MaxChunks lines of every kind
Upstream == [Plain EXCEPT !.bodies = Bodies, !.lines = Lines, !.chunks = MaxChunks]
InitUpstream == Start(Upstream)
NextUpstream == Background(Upstream) \/ Step(Worker, Upstream)
SpecUpstream == InitUpstream /\ [][NextUpstream]_vars

\* the same server where the callers vary: every secret and header, with
\* every value of KEYS and an upstream that lists one model, or fails to
Callers ==
    [Plain EXCEPT !.secrets = Secrets, !.headers = Headers, !.keys = KeysEnv,
                  !.answers = {[kind |-> "ok", data |-> <<Some("m1")>>],
                               [kind |-> "status", data |-> <<>>]}]
InitCallers == Start(Callers)
NextCallers == Background(Callers) \/ Step(Worker, Callers)
SpecCallers == InitCallers /\ [][NextCallers]_vars

\* the same server where only KEYS varies, with the status page rendered in
\* a step of its own
Pools == [Plain EXCEPT !.keys = KeysEnv]
InitPage == Start(Pools)
NextPage ==
    \/ LoadKeys(Pools) \/ Refresh(Pools) \/ PageRead \/ PageRelease \/ PageRender
    \/ Step(Worker, Pools)
SpecPage == InitPage /\ [][NextPage]_vars

\* a threaded server with callers that send the secret or no header and an
\* upstream that lists one model and answers with a usage or with no JSON,
\* where a handler that can take a step again and again takes it: the
\* scheduler runs every thread, the upstream answers or fails within the
\* timeouts (lines 54, 130), and the lock is held for a few statements only
Outcomes ==
    [Plain EXCEPT !.headers = {None, Some("Bearer s1")},
                  !.answers = {[kind |-> "ok", data |-> <<Some("m1")>>]},
                  !.bodies = {NotJson, JsonObject(UsageTotal(MaxTokens))},
                  !.requests = NumThreads]
InitFair == Start(Outcomes)
NextFair == Background(Outcomes) \/ \E t \in Threads : Step(t, Outcomes)
SpecFair ==
    InitFair /\ [][NextFair]_vars
        /\ \A t \in Threads : SF_vars(Progress(t, Outcomes))
        /\ WF_vars(PageReturn)

\* a threaded server: NumThreads handlers at once, one request each, in the
\* plain environment with an upstream that reports a usage or none
Concurrent ==
    [Plain EXCEPT !.bodies = {JsonObject(UsageAbsent), JsonObject(UsageTotal(MaxTokens))},
                  !.requests = NumThreads]
InitThreaded == Start(Concurrent)
NextThreaded == Background(Concurrent) \/ \E t \in Threads : Step(t, Concurrent)
SpecThreaded == InitThreaded /\ [][NextThreaded]_vars

\* concurrent handlers over pools of every size, KEYS having no blank entry
Racing ==
    [Plain EXCEPT !.keys = {k \in KeysEnv : \A i \in 1..Len(k) : k[i] # Blank},
                  !.requests = NumThreads]
InitRacing == Start(Racing)
NextRacing == Background(Racing) \/ \E t \in Threads : Step(t, Racing)
SpecRacing == InitRacing /\ [][NextRacing]_vars

\* ----------------------------------------------------------------- claims
\* thread t takes the step that leaves position p
Leaves(t, p) == pc[t] = p /\ pc'[t] # p

\* C1: with requests handled one at a time, the k-th select_key call for a model
\* returns pool[(k-1) mod N]: the call made after c earlier ones (c = k-1)
\* picks index c mod N, so N calls walk the pool in order and call N+1 is back
\* at the first credential.
C1_RoundRobin ==
    [][\A t \in Threads :
        Leaves(t, "select") /\ all_keys # <<>> =>
            LET c == calls[req[t].model]
                N == Len(all_keys)
            IN  /\ local'[t].idx = c % N
                /\ local'[t].key = all_keys[(c % N) + 1]]_vars

\* the third call for a model on a pool of two has returned the first
\* credential again
C1_Witness ==
    \E t \in Threads :
        /\ pc[t] = "store" /\ Len(all_keys) = 2
        /\ calls[req[t].model] = 2
        /\ local[t].key = all_keys[1]

\* C2: rotation counters are independent per model: a select_key call for a
\* model A changes no other model's counter (nothing else changes a counter at
\* all), and the first call ever made for a model B returns pool[0] however
\* many calls were made for other models.
C2_Independent ==
    [][/\ \A t \in Threads :
            /\ Leaves(t, "store") =>
                  \A B \in Models \ {req[t].model} :
                      /\ (B \in DOMAIN model_key_idx') = (B \in DOMAIN model_key_idx)
                      /\ B \in DOMAIN model_key_idx => model_key_idx'[B] = model_key_idx[B]
            /\ Leaves(t, "select") /\ all_keys # <<>> /\ calls[req[t].model] = 0 =>
                  local'[t].idx = 0 /\ local'[t].key = all_keys[1]
       /\ ((\E t \in Threads : Leaves(t, "store")) \/ UNCHANGED model_key_idx)]_vars

\* the first call for B, made after two calls for A on a pool of two, has
\* returned the first credential
C2_Witness ==
    \E t \in Threads, A \in Models :
        /\ pc[t] = "store" /\ Len(all_keys) = 2
        /\ A # req[t].model /\ calls[A] = 2 /\ calls[req[t].model] = 0
        /\ local[t].key = all_keys[1]

\* the models a refresh answered by a must leave valid: the non-empty ids of
\* the listing when the pool is not empty and the fetch succeeded, none otherwise
C3_Expected(a) ==
    IF all_keys # <<>> /\ a.kind = "ok"
    THEN {a.data[i][1] : i \in {j \in 1..Len(a.data) : a.data[j] # None /\ a.data[j] # Some("")}}
    ELSE {}

\* C3: the valid models are exactly the ids of the most recent refresh if it
\* succeeded, and none if it failed (transport, status, parse) or ran with an
\* empty pool; nothing but a refresh changes them, so after a failed refresh no
\* model known before is valid.
C3_LatestRefresh ==
    /\ [][/\ \A a \in ModelsAnswers :
               RefreshGets(a) => {m \in Models \cup {""} : IsValid(m)}' = C3_Expected(a)
          /\ ((\E a \in ModelsAnswers : RefreshGets(a)) \/ UNCHANGED text_models)]_vars
    /\ [](fetch_failed \/ (boot = "serving" /\ all_keys = <<>>) => \A m \in Models \cup {""} : ~IsValid(m))

\* a refresh failed while a request whose model the refresh before had made
\* valid was being handled
C3_Witness ==
    \E t \in Threads :
        /\ pc[t] = "select" /\ req[t].model \in Models
        /\ fetch_failed /\ text_models = <<>>

\* s grew into s2 by appending only
C4_Grows(s, s2) == Len(s) <= Len(s2) /\ SubSeq(s2, 1, Len(s)) = s

\* C4: after K records with token counts t_1..t_K the snapshot of the status
\* page reads rpm = rpd = K and tpm = tpd = t_1 + ... + t_K, and no step removes
\* an entry from any of the four sequences.
C4_Snapshot ==
    /\ [](ppc = "read" =>
            /\ snapshot.rpm = Len(recorded) /\ snapshot.rpd = Len(recorded)
            /\ snapshot.tpm = Sum(recorded) /\ snapshot.tpd = Sum(recorded))
    /\ [][/\ C4_Grows(request_timestamps, request_timestamps')
          /\ C4_Grows(token_counts, token_counts')
          /\ C4_Grows(request_timestamps_day, request_timestamps_day')
          /\ C4_Grows(token_counts_day, token_counts_day')]_vars

\* the page reads two records, one with a token count, written by a streamed
\* and a buffered relay
C4_Witness ==
    /\ ppc = "read" /\ snapshot.rpm = 2 /\ snapshot.tpd = MaxTokens
    /\ recorded = <<0, MaxTokens>>
    /\ response[Worker] = Reply(200, [stream |-> "complete"])

\* C5: an authorized chat request whose model is not in the registry ends with
\* 400 {"error": "Invalid model"}; up to that end no upstream call was made for
\* it, it added no record, and the step that rejects it changes none of the
\* four ledger sequences.
C5_InvalidModel ==
    /\ [][\A t \in Threads :
            Leaves(t, "validate") /\ req[t].model \notin Range(text_models) =>
                /\ response'[t] = [status |-> 400, body |-> [error |-> "Invalid model"]]
                /\ pc'[t] = "idle"
                /\ attempts'[t] = 0 /\ records'[t] = 0
                /\ UNCHANGED ledger]_vars
    /\ [](\A t \in Threads : pc[t] = "validate" => attempts[t] = 0 /\ records[t] = 0)

\* a request was rejected for its model while the registry listed another one
C5_Witness ==
    \E t \in Threads :
        /\ pc[t] = "idle" /\ response[t] = InvalidModel
        /\ req[t].route = "/v1/chat/completions"
        /\ text_models # <<>> /\ req[t].model \notin Range(text_models)
        /\ AUTHORIZATION_KEY = Some("s1")

\* C7: while a stream is relayed the chunks handed to the caller are the chunks
\* received from the upstream, in order and unaltered, up to and including the
\* last one; the request has no record yet and a snapshot read meanwhile shows
\* none for it; the request ends with exactly one record, appended after the
\* stream has ended.
C7_StreamThenRecord ==
    /\ [](\A t \in Threads :
            /\ delivered[t] = upstream[t]
            /\ pc[t] = "stream" =>
                  /\ records[t] = 0
                  /\ Len(request_timestamps) = Len(recorded)
                  /\ Len(token_counts_day) = Len(recorded)
                  /\ ppc = "read" => snapshot.rpm = Len(recorded) /\ snapshot.rpd = Len(recorded))
    /\ [][\A t \in Threads :
            /\ Leaves(t, "stream") /\ pc'[t] = "lock" =>
                  delivered[t] = upstream[t] /\ records'[t] = 0 /\ UNCHANGED ledger
            /\ response'[t] = Reply(200, [stream |-> "complete"]) /\ pc[t] # "idle" =>
                  /\ records[t] = 0 /\ records'[t] = 1
                  /\ Len(recorded') = Len(recorded) + 1]_vars

\* the first request was streamed to its end, a chunk carrying the usage, and
\* the page now reads its one record
C7_Witness ==
    /\ arrived = 1 /\ records[Worker] = 1
    /\ response[Worker] = Reply(200, [stream |-> "complete"])
    /\ ppc = "read" /\ snapshot.rpm = 1 /\ snapshot.tpm = MaxTokens

\* C8: an upstream 429 with a JSON body b, to a streaming or a non-streaming
\* request, ends the request with status 429 and body b unchanged, after one
\* upstream attempt, with no record and no change of the ledger.
C8_RateLimited ==
    [][\A t \in Threads, b \in Bodies :
        ForwardLimitedWith(t, b) /\ b[1] = "json" =>
            /\ response'[t] = [status |-> 429, body |-> [json |-> b]]
            /\ pc'[t] = "idle"
            /\ attempts'[t] = 1 /\ records'[t] = 0
            /\ UNCHANGED ledger]_vars

\* a streaming request was answered with the upstream's 429 body
C8_Witness ==
    \E t \in Threads :
        /\ pc[t] = "idle" /\ req[t].stream
        /\ response[t] = Reply(429, [json |-> JsonObject(UsageAbsent)])
        /\ attempts[t] = 1 /\ records[t] = 0

\* whether a shared secret is configured
C9_Secret == AUTHORIZATION_KEY # None /\ AUTHORIZATION_KEY # Some("")

\* thread t rejects the request it takes in this step, having done nothing else
C9_Rejected(t) ==
    /\ response'[t] = [status |-> 401, body |-> [error |-> "Unauthorized"]]
    /\ pc'[t] = "idle"
    /\ attempts'[t] = 0 /\ records'[t] = 0
    /\ UNCHANGED <<ledger, model_key_idx, calls>>

\* C9: with a secret configured, a request to /v1/models or /v1/chat/completions
\* whose Authorization header is not exactly "Bearer <secret>" ends 401
\* {"error": "Unauthorized"} in the step that takes it, before validation,
\* selection, upstream call or ledger write, and a request with exactly that
\* header does not; with no secret configured no request ends Unauthorized.
C9_Auth ==
    /\ [][\A t \in Threads, h \in Headers :
            LET wrong == C9_Secret /\ h # Some("Bearer " \o AUTHORIZATION_KEY[1])
            IN  /\ \A m \in Models, s \in BOOLEAN :
                     ChatReceiveWith(t, h, m, s) =>
                         IF wrong THEN C9_Rejected(t) ELSE response'[t].status # 401
                /\ ListModelsWith(t, h) =>
                         IF wrong THEN C9_Rejected(t) ELSE response'[t].status # 401]_vars
    /\ [](~C9_Secret => \A t \in Threads : response[t].status # 401)

\* a chat request for a model the registry does not list was rejected as
\* unauthorized
C9_Witness ==
    \E t \in Threads :
        /\ pc[t] = "idle" /\ response[t] = Unauthorized
        /\ req[t].route = "/v1/chat/completions"
        /\ text_models # <<>> /\ req[t].model \notin Range(text_models)
        /\ C9_Secret

\* the four ledger sequences have one length
C10_EqualLengths ==
    /\ Len(request_timestamps) = Len(token_counts)
    /\ Len(token_counts) = Len(request_timestamps_day)
    /\ Len(request_timestamps_day) = Len(token_counts_day)

\* C10: with handlers running concurrently, whenever the status page holds the
\* lock for its snapshot the four sequences have equal lengths, and whenever
\* they differ a handler holds the lock and is between its four appends.
C10_LockedLedger ==
    /\ ppc = "read" => C10_EqualLengths /\ snapshot.rpm = snapshot.rpd
    /\ ~C10_EqualLengths =>
          /\ data_lock \in Threads
          /\ pc[data_lock] \in {"line160", "line161", "line162"}

\* a streamed relay is between its appends while a buffered relay waits for
\* the lock
C10_Witness ==
    \E t, u \in Threads :
        /\ t # u /\ data_lock = t
        /\ pc[t] = "line161" /\ req[t].stream
        /\ pc[u] = "lock" /\ ~req[u].stream
        /\ ~C10_EqualLengths

\* the characters of k appear in text, in order and next to each other
C11_Contains(text, k) ==
    \E i \in 0..(Len(text) - Len(k)) : SubSeq(text, i + 1, i + Len(k)) = k

\* C11: the masked form the status page shows for a credential of the pool,
\* whatever its length, never contains the full credential.
C11_MaskHides ==
    ppc = "render" =>
        \A i \in 1..Len(all_keys) : ~C11_Contains(key_balances[i], Chars(all_keys[i]))

\* the outcomes of a chat request: 500 with an error message, a streamed 200
\* (sent to its end, or cut short), a buffered 200, the upstream's 429, the
\* server's 500 for a stream that broke before its first chunk
IsProxyError(r) == r.status = 500 /\ DOMAIN r.body = {"error"}
C12_Streamed(r) ==
    r.status = 200 /\ DOMAIN r.body = {"stream"} /\ r.body.stream \in {"complete", "aborted"}
C12_Buffered(r) == r.status = 200 /\ DOMAIN r.body = {"json"}
C12_RateLimited(r) == r.status = 429 /\ DOMAIN r.body = {"json"}
C12_Broken(r) == r.status = 500 /\ r.body = [stream |-> "aborted"]
C12_Listed(r) ==
    \/ r \in {Unauthorized, InvalidModel, NoKey}
    \/ IsProxyError(r) \/ C12_Streamed(r) \/ C12_Buffered(r)

\* thread t has handled a chat request to its end
C12_Ended(t) == pc[t] = "idle" /\ req[t].route = "/v1/chat/completions"

C13_TransportFailure ==
    [][\A t \in Threads :
        ForwardFails(t) \/ StreamFail(t) =>
            /\ IsProxyError(response'[t]) /\ pc'[t] = "idle"
            /\ records'[t] = 0 /\ UNCHANGED ledger]_vars

\* the token count C14 names for a JSON object b: its usage.total_tokens, 0
\* when there is none
C14_Tokens(b) == IF Len(b[3]) = 2 THEN b[3][2] ELSE 0

\* C14: a non-streaming request that is forwarded and answered with a status
\* other than 429 and a JSON object b goes on to record C14_Tokens(b), and
\* ends with status 200, body b and exactly one record of that count.
C14_BufferedRelay ==
    [][\A t \in Threads :
        /\ \A st \in OtherStatuses, b \in Bodies :
              ForwardBufferedWith(t, st, b) /\ b[1] = "json" /\ b[2] = "object" =>
                  /\ pc'[t] = "lock" /\ local'[t].js = b
                  /\ local'[t].total_tokens = C14_Tokens(b)
        /\ Leaves(t, "line162") /\ ~req[t].stream =>
              /\ response'[t] = [status |-> 200, body |-> [json |-> local[t].js]]
              /\ attempts'[t] = 1 /\ records[t] = 0 /\ records'[t] = 1
              /\ token_counts' = Append(recorded, local[t].total_tokens)
              /\ token_counts_day' = token_counts'
              /\ Len(request_timestamps') = Len(token_counts')
              /\ Len(request_timestamps_day') = Len(token_counts')]_vars

\* the count C15 names for the accumulated lines: that of the last "data: "
\* line whose payload is not [DONE], if it is a JSON object with
\* usage.total_tokens, and 0 otherwise or when there is no such line
C15_Expected(lines) ==
    LET D == {i \in 1..Len(lines) : lines[i].data /\ lines[i].payload # DoneMarker}
        last == CHOOSE i \in D : \A j \in D : j <= i
        p == lines[last].payload
    IN  IF D = {} THEN 0
        ELSE IF p[1] = "json" /\ p[2] = "object" /\ Len(p[3]) = 2 THEN p[3][2]
        ELSE 0

\* C15: when a stream ends, the count gen computes from the lines it has
\* accumulated (all the upstream sent) is C15_Expected of them, and that
\* count is the one its record carries.
C15_StreamTokens ==
    [][\A t \in Threads :
        /\ Leaves(t, "stream") /\ pc'[t] = "lock" =>
              /\ local[t].buffer = upstream[t]
              /\ local'[t].total_tokens = C15_Expected(upstream[t])
        /\ Leaves(t, "line162") /\ req[t].stream =>
              /\ recorded' = Append(recorded, local[t].total_tokens)
              /\ token_counts = Append(recorded, local[t].total_tokens)
              /\ token_counts_day' = token_counts
        /\ pc[t] \in {"lock", "line159", "line160", "line161"} =>
              local'[t].total_tokens = local[t].total_tokens]_vars

\* the first request was streamed to its end and is about to record the
\* usage its last data line carried
C15_Witness ==
    /\ arrived = 1 /\ pc[Worker] = "lock" /\ req[Worker].stream
    /\ local[Worker].total_tokens = MaxTokens

\* C16: with handlers running concurrently, whatever the interleaving of the
\* read of line 67 and the write of line 69, a selection takes the stored
\* count of its model as it is at the read (0 when there is none) modulo the
\* pool size and returns the pool member at that index; the write stores the
\* index read plus one, whatever was stored in between.
C16_PoolMember ==
    [][\A t \in Threads :
        /\ Leaves(t, "select") /\ all_keys # <<>> =>
              LET m == req[t].model
                  N == Len(all_keys)
                  c == IF m \in DOMAIN model_key_idx THEN model_key_idx[m] ELSE 0
              IN  /\ local'[t].idx = c % N
                  /\ local'[t].idx \in 0..(N - 1)
                  /\ local'[t].key = all_keys[local'[t].idx + 1]
                  /\ local'[t].key \in Range(all_keys)
        /\ Leaves(t, "store") =>
              /\ model_key_idx'[req[t].model] = local[t].idx + 1
              /\ local[t].key \in Range(all_keys)]_vars

\* two requests for the same model, the first two selections made for it on a
\* pool of two, both hold the first credential: the second read came before
\* the first write
C16_Witness ==
    \E t \in Threads, u \in Threads :
        /\ t # u
        /\ pc[t] = "forward" /\ pc[u] = "forward"
        /\ req[t].model = req[u].model /\ calls[req[t].model] = 2
        /\ Len(all_keys) = 2
        /\ local[t].idx = 0 /\ local[u].idx = 0
        /\ local[t].key = all_keys[1] /\ local[u].key = all_keys[1]
        /\ model_key_idx[req[t].model] = 1

\* the positions of a handler that has passed the model check of line 111
C17_Validated ==
    {"select", "store", "forward", "stream", "lock", "line159", "line160", "line161",
     "line162"}

\* C17: a refresh, failing ones included, changes nothing but the registry:
\* not the pool, the rotation counters, the ledger or any handler's position,
\* locals and response, and a failing one empties the registry. A handler
\* past the model check never consults the registry again: whatever the
\* registry holds, it can take its next step up to the end of the relay, that
\* step changes no registry and never answers Invalid model or Unauthorized.
C17_RefreshIsolated ==
    [][/\ \A a \in ModelsAnswers :
            RefreshGets(a) =>
                /\ UNCHANGED <<all_keys, model_key_idx, ledger, handler, data_lock>>
                /\ a.kind # "ok" => text_models' = <<>>
                /\ \A t \in Threads :
                       pc[t] \in C17_Validated =>
                           (ENABLED Progress(t, Deployment))' = ENABLED Progress(t, Deployment)
       /\ \A t \in Threads :
            /\ pc[t] \in {"select", "store", "forward", "stream"} =>
                  ENABLED Progress(t, Deployment)
            /\ pc[t] \in C17_Validated /\ (pc'[t] # pc[t] \/ delivered'[t] # delivered[t]) =>
                  /\ text_models' = text_models
                  /\ response'[t] \notin {InvalidModel, Unauthorized}]_vars

\* the only request so far passed the model check, a refresh then failed and
\* emptied the registry, and the request was still answered 200
C17_Witness ==
    /\ arrived = 1 /\ pc[Worker] = "idle"
    /\ req[Worker].route = "/v1/chat/completions"
    /\ response[Worker].status = 200
    /\ fetch_failed /\ text_models = <<>> /\ ~IsValid(req[Worker].model)

C19_StoredRange ==
    /\ DOMAIN model_key_idx = {m \in Models : calls[m] > 0}
    /\ \A m \in DOMAIN model_key_idx :
          /\ model_key_idx[m] \in Int
          /\ model_key_idx[m] \in 1..Len(all_keys)

\* two concurrent requests for one model have both stored: its count is N on
\* a pool of two and the other model has no entry
C19_Witness ==
    \E t \in Threads, u \in Threads :
        /\ t # u /\ pc[t] = "forward" /\ pc[u] = "forward"
        /\ req[t].model = req[u].model
        /\ Len(all_keys) = 2
        /\ DOMAIN model_key_idx = {req[t].model}
        /\ model_key_idx[req[t].model] = Len(all_keys)

\* C20: a model is listed only if there is a key: the pool is written once,
\* by load_keys before anything else, a refresh on an empty pool leaves the
\* registry empty, so with an empty pool every chat request stops at the
\* model check, no handler is ever past it, and "No available key" is never
\* answered.
C20_PoolBehindRegistry ==
    /\ [](/\ text_models # <<>> => all_keys # <<>>
          /\ \A t \in Threads :
                /\ pc[t] \in C17_Validated => all_keys # <<>>
                /\ response[t] # NoKey)
    /\ [][/\ boot # "load" => UNCHANGED all_keys
          /\ boot = "load" => boot' = "refresh" /\ UNCHANGED <<text_models, handler>>
          /\ \A a \in ModelsAnswers :
                RefreshGets(a) /\ all_keys = <<>> => text_models' = <<>>
          /\ \A t \in Threads :
                Leaves(t, "validate") /\ all_keys = <<>> =>
                    pc'[t] = "idle" /\ response'[t] = InvalidModel]_vars

\* the server runs with an empty pool and an empty registry, and a chat
\* request was rejected as Invalid model
C20_Witness ==
    /\ boot = "serving" /\ all_keys = <<>> /\ text_models = <<>>
    /\ pc[Worker] = "idle" /\ req[Worker].route = "/v1/chat/completions"
    /\ response[Worker] = InvalidModel

====
